---- MODULE Spec2Model ----
(***************************************************************************)
(* A model of the claude-trace action logger (logger.py), its event model  *)
(* (models.py), the trace.py command line logger, the trace analyzer       *)
(* (analyzer.py) and the observer server (mcp-observer/server.py).         *)
(*                                                                         *)
(* storage.py (TraceStorage, SessionBuilder) is imported by logger.py but  *)
(* is not part of the source tree; SessionBuilder and the storage appends  *)
(* are modelled from the specification's sections 4.2 and 4.3.             *)
(***************************************************************************)
EXTENDS Integers, Sequences, FiniteSets, TLC

VARIABLES
    program,       \* which program a run is of: "logger" (an ActionLogger), "cli" (trace.py), ...
    sessions,      \* logger: every SessionBuilder created so far, in creation order
    current,       \* logger: ActionLogger._current_session (0 = None, else index into sessions)
    currentGoal,   \* logger: ActionLogger._current_goal
    scopes,        \* logger: the `with logger.session(...)` scopes not yet left (innermost last)
    store,         \* TraceStorage: the append-only action log
    registry,      \* TraceStorage: the saved Session records
    raised,        \* logger: the exception the last operation raised ("none" if it returned)
    sessionFile,   \* trace.py: traces/session_meta.json (<<>> = no such file)
    traceFile,     \* trace.py: traces/current_session.jsonl (<<>> = no such file)
    archives,      \* trace.py: the other files of traces/, name -> content
    clock,         \* trace.py: datetime.now(), in whole seconds
    commands,      \* trace.py: the number of commands run so far
    obj,           \* models.py: an ActionTrace or a Session in memory
    ser,           \* models.py: its dictionary form, as written or as read back
    back,          \* models.py: what from_dict made of ser
    query,         \* analyzer.py: the last analyzer call and its arguments
    patterns,      \* analyzer.py: the list of PatternMatch it returned
    result,        \* analyzer.py: what any other analyzer method returned
    called,        \* logger.py: the call made last, and what the tool did in it
    procs,         \* trace.py: the `log` commands running, each with its position and its locals
    SEQUENCE,      \* server.py: the global SEQUENCE of the observer process
    liveTrace,     \* server.py: the lines of TRACE_FILE (live_trace.jsonl)
    stats          \* server.py: what get_session_stats returned last

loggerVars == <<sessions, current, currentGoal, scopes, store, registry, raised>>
cliVars == <<sessionFile, traceFile, archives, clock, commands>>
modelVars == <<obj, ser, back>>
analyzerVars == <<query, patterns, result>>
callVars == <<called>>
stepVars == <<procs>>
observerVars == <<SEQUENCE, liveTrace, stats>>
lifecycleVars == <<program, loggerVars, cliVars>>
vars == <<program, sessions, current, currentGoal, scopes, store, registry, raised,
          sessionFile, traceFile, archives, clock, commands, obj, ser, back,
          query, patterns, result, called, procs, SEQUENCE, liveTrace, stats>>

----------------------------------------------------------------------------
(* Bounds of the model.                                                    *)

MaxSessions == 2      \* sessions opened under one logger
MaxTraces == 2        \* actions logged through one logger
MaxCommands == 5      \* trace.py commands run
MaxClock == 2         \* seconds that pass while trace.py commands run
MaxSessionTraces == 2 \* traces inside a Session that is converted
MaxDropped == 1       \* fields missing from a dictionary that is read back
MaxLen == 3           \* actions of one session in the store the analyzer reads
MaxStore == 5         \* actions in the store the analyzer reads
MaxCalls == 1         \* calls of log_action and of wrapped tools in one run
MaxShort == 2         \* characters by which an output is off zero or off the cap
MaxLogged == 4        \* actions in the store whose trajectories are asked for
MaxLogs == 3          \* `log` commands begun after a `start`
MaxObserved == 3      \* observed tool calls served by one observer process

----------------------------------------------------------------------------
(* Values.                                                                 *)

None == "None"

\* The empty dictionary.
NoDict == [k \in {} |-> None]

\* No analyzer call yet.
NoQuery ==
    [kind |-> "none", min_length |-> 0, max_length |-> 0, min_frequency |-> 0,
     arg |-> None]

\* The outcome of a deserialization: a value, or the exception raised.
NoResult == [status |-> "none", error |-> "none", value |-> NoDict]
Returned(v) == [status |-> "ok", error |-> "none", value |-> v]
Raised(e) == [status |-> "error", error |-> e, value |-> NoDict]

\* uuid4-minted session identifiers: the i-th builder gets the i-th fresh one.
IdPool == <<"s1", "s2", "s3", "s4", "s5", "s6">>

Goals == {"goal"}

\* logger.py:124: the number of characters of an output that are kept.
OutputCap == 10000

\* A text is the characters lo+1..hi of what the tool printed; NoOutput is
\* None passed where a text is expected.
Chars(n) == [given |-> TRUE, lo |-> 0, hi |-> n]
NoOutput == [given |-> FALSE, lo |-> 0, hi |-> 0]
len(text) == text.hi - text.lo

\* No call of the logger yet.
NoCall == [via |-> "none", kind |-> "none", output |-> NoOutput, message |-> ""]

Tristate == {"True", "False", None}

\* The log_action calls the model makes. cmd: the keywords that occur in
\* inputs['command']; out: the error markers that occur in output.lower();
\* success and error as the caller passes them.
LogCalls ==
    { [tool |-> "bash_tool", cmd |-> {"ls"}, out |-> {}, paths |-> {},
       output |-> Chars(OutputCap + 1), success |-> None, error |-> None],
      [tool |-> "create_file", cmd |-> {}, out |-> {"error"}, paths |-> {"a.py"},
       output |-> Chars(5), success |-> "False", error |-> "boom"] }

----------------------------------------------------------------------------
(* models.py: the closed categories.                                       *)

\* An enum member is written by its name, its value is the string tag.
ToolTypeMembers ==
    {"VIEW", "BASH", "READ_PAGE", "WEB_SEARCH", "WEB_FETCH",
     "CREATE_FILE", "STR_REPLACE", "EXECUTE", "UNKNOWN"}

ToolType_value(m) ==
    CASE m = "VIEW" -> "view"
      [] m = "BASH" -> "bash_tool"
      [] m = "READ_PAGE" -> "read_page"
      [] m = "WEB_SEARCH" -> "web_search"
      [] m = "WEB_FETCH" -> "web_fetch"
      [] m = "CREATE_FILE" -> "create_file"
      [] m = "STR_REPLACE" -> "str_replace"
      [] m = "EXECUTE" -> "execute"
      [] m = "UNKNOWN" -> "unknown"

ToolTypeValues == {ToolType_value(m) : m \in ToolTypeMembers}

ModalityMembers ==
    {"TOUCH", "VISION", "TASTE", "MOTOR", "PROPRIO", "PAIN", "UNKNOWN"}

Modality_value(m) ==
    CASE m = "TOUCH" -> "touch"
      [] m = "VISION" -> "vision"
      [] m = "TASTE" -> "taste"
      [] m = "MOTOR" -> "motor"
      [] m = "PROPRIO" -> "proprio"
      [] m = "PAIN" -> "pain"
      [] m = "UNKNOWN" -> "unknown"

ModalityValues == {Modality_value(m) : m \in ModalityMembers}

\* ToolType.from_tool_name: a static lookup, unmapped names give UNKNOWN.
from_tool_name(name) ==
    CASE name = "view" -> "VIEW"
      [] name = "bash_tool" -> "BASH"
      [] name = "read_page" -> "READ_PAGE"
      [] name = "web_search" -> "WEB_SEARCH"
      [] name = "web_fetch" -> "WEB_FETCH"
      [] name = "create_file" -> "CREATE_FILE"
      [] name = "str_replace" -> "STR_REPLACE"
      [] name = "file_create" -> "CREATE_FILE"
      [] OTHER -> "UNKNOWN"

----------------------------------------------------------------------------
(* logger.py: ActionLogger.                                                *)

\* analyzer.py:203 and 241: at most this many example sessions per pattern.
ExampleCap == 5

TouchWords == {"grep", "find", "ls", "cat", "head", "tail"}
PainWords == {"error", "failed", "exception", "traceback"}
ProprioWords == {"python", "node", "npm", "pytest", "test"}

\* ActionLogger._infer_modality: the first rule that applies decides.
infer_modality(call) ==
    IF call.tool \in {"view", "bash_tool"} /\ call.cmd \cap TouchWords # {}
    THEN "TOUCH"
    ELSE IF call.tool \in {"read_page", "web_search", "web_fetch"}
    THEN "VISION"
    ELSE IF call.tool \in {"create_file", "str_replace", "file_create"}
    THEN "MOTOR"
    ELSE IF call.out \cap PainWords # {}
    THEN "PAIN"
    ELSE IF call.tool = "bash_tool" /\ call.cmd \cap ProprioWords # {}
    THEN "PROPRIO"
    ELSE "UNKNOWN"

\* ActionLogger._extract_files_touched (logger.py:143-162): the values under
\* the keys path, file_path and filepath; paths are those values, and the
\* commands of the model name no file.
extract_files_touched(call) == call.paths

\* The output as log_action would keep it without cutting it.
TruncateNothing(output) ==
    IF output.given /\ len(output) > 0 THEN output ELSE Chars(0)

\* output[:10000] if output else "" (logger.py:124)
Truncate(output) ==
    IF output.given /\ len(output) > 0
    THEN [given |-> TRUE, lo |-> output.lo,
          hi |-> IF len(output) > OutputCap THEN output.lo + OutputCap ELSE output.hi]
    ELSE Chars(0)

\* SessionBuilder(storage, session_id, goal): a fresh, open session whose next
\* sequence number is 0.
NewBuilder(id, goal) ==
    [session_id |-> id, goal |-> goal, traces |-> <<>>,
     completed |-> FALSE, success |-> None, next_seq |-> 0]

\* The trace as it would be if log_action numbered the actions it logs
\* outside a session.
NewTraceCounting(call) ==
    [session_id |-> IF current # 0 THEN sessions[current].session_id ELSE "anonymous",
     sequence_num |-> Len(SelectSeq(store, LAMBDA t : t.session_id = "anonymous")),
     tool |-> call.tool,
     tool_type |-> from_tool_name(call.tool),
     modality |-> infer_modality(call),
     output |-> Truncate(call.output),
     files_touched |-> extract_files_touched(call),
     goal |-> currentGoal,
     success |-> call.success,
     error |-> call.error]

\* The ActionTrace log_action builds (logger.py:115-133); sequence_num is 0
\* until a SessionBuilder sets it.
NewTrace(call) ==
    [session_id |-> IF current # 0 THEN sessions[current].session_id ELSE "anonymous",
     sequence_num |-> 0,
     tool |-> call.tool,
     tool_type |-> from_tool_name(call.tool),
     modality |-> infer_modality(call),
     output |-> Truncate(call.output),
     files_touched |-> extract_files_touched(call),
     goal |-> currentGoal,
     success |-> call.success,
     error |-> call.error]

\* TraceStorage.append_trace: one record added at the end of the log.
append_trace(trace) == store' = Append(store, trace)

\* SessionBuilder.add_trace on builder i: a closed session rejects the action
\* with SessionStateError and changes nothing; an open one gives the action the
\* next sequence number, keeps it and forwards it to the store.
add_trace(i, trace) ==
    IF sessions[i].completed
    THEN /\ raised' = "SessionStateError"
         /\ UNCHANGED <<sessions, store>>
    ELSE LET t == [trace EXCEPT !.sequence_num = sessions[i].next_seq,
                                !.session_id = sessions[i].session_id]
         IN /\ sessions' = [sessions EXCEPT ![i].traces = Append(@, t),
                                            ![i].next_seq = @ + 1]
            /\ append_trace(t)
            /\ raised' = "none"

\* SessionBuilder.complete(success) on builder i: the first call closes the
\* session and writes its Session record; a later call is a no-op.
complete(i, flag) ==
    IF sessions[i].completed
    THEN UNCHANGED <<sessions, registry>>
    ELSE /\ sessions' = [sessions EXCEPT ![i].completed = TRUE, ![i].success = flag]
         /\ registry' = Append(registry,
                [session_id |-> sessions[i].session_id, goal |-> sessions[i].goal,
                 n_traces |-> Len(sessions[i].traces),
                 completed |-> TRUE, success |-> flag])

\* ActionLogger.session, up to the yield (logger.py:62-70).
OpenSession(goal) ==
    /\ program = "logger"
    /\ Len(sessions) < MaxSessions
    /\ sessions' = Append(sessions, NewBuilder(IdPool[Len(sessions) + 1], goal))
    /\ current' = Len(sessions) + 1
    /\ currentGoal' = goal
    /\ scopes' = Append(scopes, Len(sessions) + 1)
    /\ raised' = "none"
    /\ UNCHANGED <<store, registry>>
    /\ UNCHANGED <<program, cliVars, modelVars, callVars, stepVars, observerVars, analyzerVars>>

\* session.complete(success=flag), called by the owner of an entered scope.
CompleteSession(i, flag) ==
    /\ program = "logger"
    /\ \E k \in 1..Len(scopes) : scopes[k] = i
    /\ complete(i, flag)
    /\ raised' = "none"
    /\ UNCHANGED <<current, currentGoal, scopes, store>>
    /\ UNCHANGED <<program, cliVars, modelVars, callVars, stepVars, observerVars, analyzerVars>>

\* ActionLogger.session, the finally block (logger.py:71-75), run when the
\* innermost scope is left, normally or by an exception. With no current
\* session line 72 raises AttributeError and lines 73-75 do not run.
ExitSession ==
    /\ program = "logger"
    /\ scopes # <<>>
    /\ scopes' = SubSeq(scopes, 1, Len(scopes) - 1)
    /\ IF current = 0
       THEN /\ raised' = "AttributeError"
            /\ UNCHANGED <<sessions, registry, current, currentGoal>>
       ELSE /\ IF ~sessions[current].completed
               THEN complete(current, None)
               ELSE UNCHANGED <<sessions, registry>>
            /\ current' = 0
            /\ currentGoal' = None
            /\ raised' = "none"
    /\ UNCHANGED store
    /\ UNCHANGED <<program, cliVars, modelVars, callVars, stepVars, observerVars, analyzerVars>>

\* log_action as it would be if it wrote every trace straight to the storage,
\* never through the current session's builder.
LogActionDirect(call) ==
    /\ program = "logger"
    /\ Len(store) < MaxTraces
    /\ append_trace(NewTrace(call))
    /\ raised' = "none"
    /\ UNCHANGED <<sessions, current, currentGoal, scopes, registry>>
    /\ UNCHANGED <<program, cliVars, modelVars, callVars, stepVars, observerVars, analyzerVars>>

\* The body of log_action (logger.py:109-141): the trace goes to the current
\* session's builder, or straight to the storage when there is none.
log_action(call) ==
    IF current # 0
    THEN add_trace(current, NewTrace(call))
    ELSE /\ append_trace(NewTrace(call))
         /\ raised' = "none"
         /\ UNCHANGED sessions

\* ActionLogger.log_action (logger.py:77-141).
LogAction(call) ==
    /\ program = "logger"
    /\ Len(store) < MaxTraces
    /\ log_action(call)
    /\ UNCHANGED <<current, currentGoal, scopes, registry>>
    /\ UNCHANGED <<program, cliVars, modelVars, callVars, stepVars, observerVars, analyzerVars>>

----------------------------------------------------------------------------
(* trace.py: the command line logger. Each command is one process run.     *)

\* datetime.now().strftime("%Y%m%d_%H%M%S"): one identifier per second.
StampPool == <<"t0", "t1", "t2", "t3", "t4", "t5">>
strftime(now) == StampPool[now + 1]

CliTools == {"bash_tool"}
CliErrors == {None, "boom"}

NoFiles == [n \in {} |-> <<>>]

\* Path.write_text / Path.rename onto `name`: the file is created or replaced.
WriteFile(files, name, content) ==
    [n \in DOMAIN files \cup {name} |-> IF n = name THEN content ELSE files[n]]

\* cmd_start as it would be if it left the current trace file in place.
cmd_start_keeping(goal) ==
    LET session == [session_id |-> strftime(clock), goal |-> goal, sequence |-> 0]
    IN /\ program = "cli"
       /\ commands < MaxCommands
       /\ commands' = commands + 1
       /\ sessionFile' = <<session>>
       /\ UNCHANGED <<archives, traceFile>>
       /\ UNCHANGED <<program, clock, loggerVars, modelVars, callVars, stepVars, observerVars, analyzerVars>>

\* cmd_start (trace.py:39-59).
cmd_start(goal) ==
    LET session == [session_id |-> strftime(clock), goal |-> goal, sequence |-> 0]
    IN /\ program = "cli"
       /\ commands < MaxCommands
       /\ commands' = commands + 1
       /\ sessionFile' = <<session>>
       /\ IF traceFile # <<>>
          THEN /\ archives' = WriteFile(archives,
                                  [kind |-> "prior", id |-> session.session_id],
                                  traceFile[1])
               /\ traceFile' = <<>>
          ELSE UNCHANGED <<archives, traceFile>>
       /\ UNCHANGED <<program, clock, loggerVars, modelVars, callVars, stepVars, observerVars, analyzerVars>>

\* cmd_end as it would be if, with no session file, it went on with an empty
\* session instead of returning.
cmd_end_unguarded(success) ==
    /\ program = "cli"
    /\ commands < MaxCommands
    /\ commands' = commands + 1
    /\ LET session == IF sessionFile = <<>>
                      THEN [session_id |-> None, goal |-> None, sequence |-> 0]
                      ELSE sessionFile[1]
           meta == [session_id |-> session.session_id, goal |-> session.goal,
                    sequence |-> session.sequence, success |-> success]
           withMeta == WriteFile(archives,
                           [kind |-> "meta", id |-> session.session_id], meta)
       IN /\ IF traceFile # <<>>
             THEN /\ archives' = WriteFile(withMeta,
                             [kind |-> "traces", id |-> session.session_id],
                             traceFile[1])
                  /\ traceFile' = <<>>
             ELSE /\ archives' = withMeta
                  /\ UNCHANGED traceFile
          /\ sessionFile' = <<>>
    /\ UNCHANGED <<program, clock, loggerVars, modelVars, callVars, stepVars, observerVars, analyzerVars>>

\* cmd_end (trace.py:62-86); with no session file it prints and returns.
cmd_end(success) ==
    /\ program = "cli"
    /\ commands < MaxCommands
    /\ commands' = commands + 1
    /\ IF sessionFile = <<>>
       THEN UNCHANGED <<sessionFile, traceFile, archives>>
       ELSE LET session == sessionFile[1]
                meta == [session_id |-> session.session_id, goal |-> session.goal,
                         sequence |-> session.sequence, success |-> success]
                withMeta == WriteFile(archives,
                                [kind |-> "meta", id |-> session.session_id], meta)
            IN /\ IF traceFile # <<>>
                  THEN /\ archives' = WriteFile(withMeta,
                                  [kind |-> "traces", id |-> session.session_id],
                                  traceFile[1])
                       /\ traceFile' = <<>>
                  ELSE /\ archives' = withMeta
                       /\ UNCHANGED traceFile
               /\ sessionFile' = <<>>
    /\ UNCHANGED <<program, clock, loggerVars, modelVars, callVars, stepVars, observerVars, analyzerVars>>

\* cmd_log (trace.py:89-126).
cmd_log(tool, error) ==
    LET active == sessionFile # <<>>
        session_id == IF active THEN sessionFile[1].session_id ELSE "anonymous"
        sequence == IF active THEN sessionFile[1].sequence ELSE 0
        trace == [session_id |-> session_id, sequence |-> sequence, tool |-> tool,
                  success |-> (error = None), error |-> error]
        lines == IF traceFile = <<>> THEN <<>> ELSE traceFile[1]
    IN /\ program = "cli"
       /\ commands < MaxCommands
       /\ commands' = commands + 1
       /\ traceFile' = <<Append(lines, trace)>>
       /\ IF active
          THEN sessionFile' = <<[sessionFile[1] EXCEPT !.sequence = sequence + 1]>>
          ELSE UNCHANGED sessionFile
       /\ UNCHANGED <<program, archives, clock, loggerVars, modelVars, callVars, stepVars, observerVars, analyzerVars>>

\* A second passes between two commands.
Tick ==
    /\ program = "cli"
    /\ clock < MaxClock
    /\ clock' = clock + 1
    /\ UNCHANGED <<program, sessionFile, traceFile, archives, commands, loggerVars, modelVars, callVars, stepVars, observerVars, analyzerVars>>

----------------------------------------------------------------------------
(* trace.py: a `log` command step by step. Each command is a process of    *)
(* its own; nothing locks the two files, so the steps of two commands can  *)
(* interleave, and a command can be killed between two steps.              *)

\* The `log` commands that can run at the same time.
LogProcesses == {"p1", "p2"}

\* A process that runs no command.
Idle == [pc |-> "idle", session |-> <<>>]

\* session = get_session() (trace.py:93, 33-36): the command reads
\* session_meta.json into its local `session`, <<>> standing for None.
LogGetSession(p) ==
    /\ program = "steps"
    /\ procs[p].pc = "idle"
    /\ commands < MaxLogs
    /\ commands' = commands + 1
    /\ procs' = [procs EXCEPT ![p] = [pc |-> "read", session |-> sessionFile]]
    /\ UNCHANGED <<program, sessionFile, traceFile, archives, clock>>
    /\ UNCHANGED <<loggerVars, modelVars, callVars, analyzerVars, observerVars>>

\* with open(TRACE_FILE, "a") as f: f.write(...) (trace.py:94-117): the
\* record is built from the local session and appended.
LogAppendTrace(p) ==
    LET session == procs[p].session
        active == session # <<>>
        trace == [session_id |-> IF active THEN session[1].session_id ELSE "anonymous",
                  sequence |-> IF active THEN session[1].sequence ELSE 0,
                  tool |-> "bash_tool", success |-> TRUE, error |-> None]
        lines == IF traceFile = <<>> THEN <<>> ELSE traceFile[1]
    IN /\ program = "steps"
       /\ procs[p].pc = "read"
       /\ traceFile' = <<Append(lines, trace)>>
       /\ procs' = [procs EXCEPT ![p].pc = "appended"]
       /\ UNCHANGED <<program, sessionFile, archives, clock, commands>>
       /\ UNCHANGED <<loggerVars, modelVars, callVars, analyzerVars, observerVars>>

\* if session: session["sequence"] = sequence + 1; SESSION_FILE.write_text(...)
\* (trace.py:120-122): the local session, with its counter advanced, replaces
\* the file; then the command ends.
LogWriteSession(p) ==
    LET session == procs[p].session
    IN /\ program = "steps"
       /\ procs[p].pc = "appended"
       /\ IF session # <<>>
          THEN sessionFile' = <<[session[1] EXCEPT !.sequence = @ + 1]>>
          ELSE UNCHANGED sessionFile
       /\ procs' = [procs EXCEPT ![p] = Idle]
       /\ UNCHANGED <<program, traceFile, archives, clock, commands>>
       /\ UNCHANGED <<loggerVars, modelVars, callVars, analyzerVars, observerVars>>

\* The command is interrupted (killed, Ctrl-C) between two of its steps.
LogInterrupted(p) ==
    /\ program = "steps"
    /\ procs[p].pc \in {"read", "appended"}
    /\ procs' = [procs EXCEPT ![p] = Idle]
    /\ UNCHANGED <<program, cliVars>>
    /\ UNCHANGED <<loggerVars, modelVars, callVars, analyzerVars, observerVars>>

----------------------------------------------------------------------------
(* mcp-observer/server.py: the observer server. One process serves the     *)
(* observed tools; each of them ends with a call of log_trace.             *)

\* SESSION_ID of the process, and the one of a process that ran before it
\* and appended to the same TRACE_FILE.
SESSION_ID == "server"
EarlierId == "earlier"

\* What the observed tools pass to log_trace: observed_think always reports
\* success, observed_bash success or failure.
ObservedCalls ==
    { [tool |-> "think", success |-> TRUE],
      [tool |-> "bash", success |-> TRUE],
      [tool |-> "bash", success |-> FALSE] }

\* No statistics asked for yet.
NoStats ==
    [asked |-> FALSE, session_id |-> None, action_count |-> 0,
     thinking_steps |-> 0, tools_used |-> [t \in {} |-> 0]]

\* log_trace (server.py:38-80): the record takes SEQUENCE, SEQUENCE is
\* advanced, then the record is appended to TRACE_FILE; `appended` is
\* whether open(TRACE_FILE, "a") and the write succeed; when they raise, the
\* exception leaves log_trace with SEQUENCE already advanced.
log_trace(call, appended) ==
    LET trace == [session_id |-> SESSION_ID, sequence |-> SEQUENCE,
                  tool |-> call.tool, success |-> call.success]
    IN /\ SEQUENCE' = SEQUENCE + 1
       /\ liveTrace' = IF appended THEN Append(liveTrace, trace) ELSE liveTrace

\* One call of an observed tool (server.py:87-356): the tool does its work
\* and calls log_trace.
ObservedCall(call, appended) ==
    /\ program = "observer"
    /\ SEQUENCE < MaxObserved
    /\ log_trace(call, appended)
    /\ UNCHANGED stats
    /\ UNCHANGED <<program, loggerVars, cliVars, modelVars, callVars, analyzerVars, stepVars>>

\* get_session_stats of the server (server.py:363-408): the lines of
\* TRACE_FILE with the process's SESSION_ID are counted by tool, and
\* action_count is SEQUENCE.
ObserverGetSessionStats ==
    LET mine == SelectSeq(liveTrace, LAMBDA t : t.session_id = SESSION_ID)
        tools == {mine[k].tool : k \in 1..Len(mine)}
    IN /\ program = "observer"
       /\ stats' = [asked |-> TRUE,
                    session_id |-> SESSION_ID,
                    action_count |-> SEQUENCE,
                    thinking_steps |->
                        Cardinality({k \in 1..Len(mine) : mine[k].tool = "think"}),
                    tools_used |->
                        [t \in tools |->
                            Cardinality({k \in 1..Len(mine) : mine[k].tool = t})]]
       /\ UNCHANGED <<SEQUENCE, liveTrace>>
       /\ UNCHANGED <<program, loggerVars, cliVars, modelVars, callVars, analyzerVars, stepVars>>

----------------------------------------------------------------------------
(* models.py: ActionTrace and Session, and their dictionary forms.         *)
(* A dictionary is a function from its keys; a datetime is seconds and     *)
(* microseconds; an ISO-8601 string is the tuple of the parts it spells.   *)

\* datetime.isoformat: the microseconds are spelled only when not zero.
isoformat(dt) ==
    IF dt.usec = 0 THEN <<"iso", dt.sec>> ELSE <<"iso", dt.sec, dt.usec>>

\* datetime.fromisoformat: absent microseconds read as zero.
fromisoformat(str) ==
    IF Len(str) = 2
    THEN [sec |-> str[2], usec |-> 0]
    ELSE [sec |-> str[2], usec |-> str[3]]

\* ToolType(tag) and Modality(tag): the member with that value.
ToolType_of(tag) == CHOOSE m \in ToolTypeMembers : ToolType_value(m) = tag
Modality_of(tag) == CHOOSE m \in ModalityMembers : Modality_value(m) = tag

\* The fields of the ActionTrace dataclass (models.py:78-105), those without
\* a default, and the defaults of the others.
TraceFields ==
    {"trace_id", "session_id", "sequence_num", "timestamp", "tool", "tool_type",
     "inputs", "output", "duration_ms", "goal", "reasoning", "files_touched",
     "success", "error", "prior_state_hash", "posterior_state_hash", "modality"}

TraceRequired ==
    {"trace_id", "session_id", "sequence_num", "timestamp", "tool", "tool_type",
     "inputs", "output"}

TraceDefault(f) ==
    CASE f = "files_touched" -> <<>>
      [] f = "modality" -> "UNKNOWN"
      [] OTHER -> None

\* The fields of the Session dataclass (models.py:136-144), those without a
\* default, and the defaults of the others.
SessionFields ==
    {"session_id", "started_at", "goal", "traces", "metadata", "completed", "success"}

SessionRequired == {"session_id", "started_at"}

SessionDefault(f) ==
    CASE f = "traces" -> <<>>
      [] f = "metadata" -> NoDict
      [] f = "completed" -> FALSE
      [] OTHER -> None

Without(d, k) == [x \in DOMAIN d \ {k} |-> d[x]]
With(d, k, v) == [x \in DOMAIN d \cup {k} |-> IF x = k THEN v ELSE d[x]]

\* to_dict as it would be if it wrote the enum member's name for tool_type.
ActionTrace_to_dict_name(a) ==
    [a EXCEPT !.timestamp = isoformat(@),
              !.modality = Modality_value(@)]

\* ActionTrace.to_dict (models.py:107-113).
ActionTrace_to_dict(a) ==
    [a EXCEPT !.timestamp = isoformat(@),
              !.tool_type = ToolType_value(@),
              !.modality = Modality_value(@)]

\* ActionTrace.from_dict (models.py:115-122), statement by statement.
ActionTrace_from_dict(d) ==
    IF "timestamp" \notin DOMAIN d THEN Raised("KeyError")
    ELSE IF "tool_type" \notin DOMAIN d THEN Raised("KeyError")
    ELSE IF d.tool_type \notin ToolTypeValues THEN Raised("ValueError")
    ELSE LET tag == IF "modality" \in DOMAIN d THEN d.modality ELSE "unknown"
         IN IF tag \notin ModalityValues THEN Raised("ValueError")
            ELSE LET d2 == [With(d, "modality", Modality_of(tag))
                               EXCEPT !.timestamp = fromisoformat(@),
                                      !.tool_type = ToolType_of(@)]
                 IN IF DOMAIN d2 \ TraceFields # {} THEN Raised("TypeError")
                    ELSE IF TraceRequired \ DOMAIN d2 # {} THEN Raised("TypeError")
                    ELSE Returned([f \in TraceFields |->
                               IF f \in DOMAIN d2 THEN d2[f] ELSE TraceDefault(f)])

\* Session.to_dict (models.py:169-179).
Session_to_dict(s) ==
    [session_id |-> s.session_id,
     started_at |-> isoformat(s.started_at),
     goal |-> s.goal,
     traces |-> [k \in 1..Len(s.traces) |-> ActionTrace_to_dict(s.traces[k])],
     metadata |-> s.metadata,
     completed |-> s.completed,
     success |-> s.success]

\* Session.from_dict (models.py:181-192): the keyword arguments are evaluated
\* in order, so the first failing one decides the exception.
Session_from_dict(d) ==
    IF "session_id" \notin DOMAIN d THEN Raised("KeyError")
    ELSE IF "started_at" \notin DOMAIN d THEN Raised("KeyError")
    ELSE LET dicts == IF "traces" \in DOMAIN d THEN d.traces ELSE <<>>
             read == [k \in 1..Len(dicts) |-> ActionTrace_from_dict(dicts[k])]
             bad == {k \in 1..Len(dicts) : read[k].status # "ok"}
         IN IF bad # {}
            THEN read[CHOOSE k \in bad : \A j \in bad : k <= j]
            ELSE Returned(
                   [session_id |-> d.session_id,
                    started_at |-> fromisoformat(d.started_at),
                    goal |-> IF "goal" \in DOMAIN d THEN d.goal ELSE None,
                    traces |-> [k \in 1..Len(dicts) |-> read[k].value],
                    metadata |-> IF "metadata" \in DOMAIN d THEN d.metadata ELSE NoDict,
                    completed |-> IF "completed" \in DOMAIN d THEN d.completed ELSE FALSE,
                    success |-> IF "success" \in DOMAIN d THEN d.success ELSE None])

\* ---- the records the model converts ----

Timestamps == {[sec |-> 5, usec |-> 0], [sec |-> 5, usec |-> 250]}

\* An ActionTrace; profile "bare" leaves every optional field at its default,
\* "full" sets each of them.
MakeTrace(ts, tool_type, modality, profile) ==
    [trace_id |-> "t1", session_id |-> "s1", sequence_num |-> 0, timestamp |-> ts,
     tool |-> "bash_tool", tool_type |-> tool_type,
     inputs |-> [command |-> "ls"], output |-> "out",
     duration_ms |-> IF profile = "full" THEN "12.5" ELSE None,
     goal |-> IF profile = "full" THEN "goal" ELSE None,
     reasoning |-> IF profile = "full" THEN "why" ELSE None,
     files_touched |-> IF profile = "full" THEN <<"a.py">> ELSE <<>>,
     success |-> IF profile = "full" THEN "False" ELSE None,
     error |-> IF profile = "full" THEN "boom" ELSE None,
     prior_state_hash |-> IF profile = "full" THEN "h0" ELSE None,
     posterior_state_hash |-> IF profile = "full" THEN "h1" ELSE None,
     modality |-> modality]

Profiles == {"bare", "full"}

\* Every tool type and every modality occurs in some trace.
ActionTraces ==
    {MakeTrace(ts, tt, "UNKNOWN", p) :
        ts \in Timestamps, tt \in ToolTypeMembers, p \in Profiles}
    \cup {MakeTrace(ts, "BASH", m, p) :
        ts \in Timestamps, m \in ModalityMembers, p \in Profiles}

SampleTraces ==
    {MakeTrace([sec |-> 5, usec |-> 250], "BASH", "TOUCH", "full"),
     MakeTrace([sec |-> 5, usec |-> 0], "UNKNOWN", "UNKNOWN", "bare")}

TraceLists == UNION {[1..n -> SampleTraces] : n \in 0..MaxSessionTraces}

MakeSession(ts, traces, profile) ==
    [session_id |-> "s1", started_at |-> ts,
     goal |-> IF profile = "full" THEN "goal" ELSE None,
     traces |-> traces,
     metadata |-> IF profile = "full" THEN [origin |-> "demo"] ELSE NoDict,
     completed |-> (profile = "full"),
     success |-> IF profile = "full" THEN "True" ELSE None]

Sessions ==
    {MakeSession(ts, tr, p) : ts \in Timestamps, tr \in TraceLists, p \in Profiles}

Objects ==
    {[kind |-> "ActionTrace", value |-> a] : a \in ActionTraces}
    \cup {[kind |-> "Session", value |-> x] : x \in Sessions}

to_dict(o) ==
    IF o.kind = "ActionTrace" THEN ActionTrace_to_dict(o.value)
    ELSE Session_to_dict(o.value)

from_dict(kind, d) ==
    IF kind = "ActionTrace" THEN ActionTrace_from_dict(d) ELSE Session_from_dict(d)

\* The keys to_dict wrote that the dictionary no longer has.
Dropped == DOMAIN to_dict(obj) \ DOMAIN ser

\* to_dict is called on the record.
Serialize ==
    /\ program = "models"
    /\ ser = NoDict
    /\ ser' = to_dict(obj)
    /\ UNCHANGED <<obj, back>>
    /\ UNCHANGED <<lifecycleVars, analyzerVars, callVars, stepVars, observerVars>>

\* A later version of the schema added a field to the record.
AddField ==
    /\ program = "models"
    /\ ser # NoDict
    /\ back = NoResult
    /\ "schema_version" \notin DOMAIN ser
    /\ ser' = With(ser, "schema_version", "2")
    /\ UNCHANGED <<obj, back>>
    /\ UNCHANGED <<lifecycleVars, analyzerVars, callVars, stepVars, observerVars>>

\* A later version of the schema added a field to a trace inside a session.
AddTraceField(k) ==
    /\ program = "models"
    /\ ser # NoDict
    /\ back = NoResult
    /\ obj.kind = "Session"
    /\ "traces" \in DOMAIN ser
    /\ k \in 1..Len(ser.traces)
    /\ "schema_version" \notin DOMAIN ser.traces[k]
    /\ ser' = [ser EXCEPT !.traces[k] = With(@, "schema_version", "2")]
    /\ UNCHANGED <<obj, back>>
    /\ UNCHANGED <<lifecycleVars, analyzerVars, callVars, stepVars, observerVars>>

\* An earlier version of the schema did not write field f.
DropField(f) ==
    /\ program = "models"
    /\ ser # NoDict
    /\ back = NoResult
    /\ f \in DOMAIN ser
    /\ Cardinality(Dropped) < MaxDropped
    /\ ser' = Without(ser, f)
    /\ UNCHANGED <<obj, back>>
    /\ UNCHANGED <<lifecycleVars, analyzerVars, callVars, stepVars, observerVars>>

\* A later version of the schema wrote a category the enum does not have.
SetTag(f) ==
    /\ program = "models"
    /\ ser # NoDict
    /\ back = NoResult
    /\ obj.kind = "ActionTrace"
    /\ f \in {"tool_type", "modality"} \cap DOMAIN ser
    /\ ser[f] # "hologram"
    /\ ser' = [ser EXCEPT ![f] = "hologram"]
    /\ UNCHANGED <<obj, back>>
    /\ UNCHANGED <<lifecycleVars, analyzerVars, callVars, stepVars, observerVars>>

\* from_dict is called on the dictionary.
Deserialize ==
    /\ program = "models"
    /\ ser # NoDict
    /\ back = NoResult
    /\ back' = from_dict(obj.kind, ser)
    /\ UNCHANGED <<obj, ser>>
    /\ UNCHANGED <<lifecycleVars, analyzerVars, callVars, stepVars, observerVars>>

----------------------------------------------------------------------------
(* analyzer.py: TraceAnalyzer, reading the storage's action log.           *)

Min(a, b) == IF a <= b THEN a ELSE b

RECURSIVE Flatten(_)
Flatten(seqs) ==
    IF seqs = <<>> THEN <<>>
    ELSE Flatten(SubSeq(seqs, 1, Len(seqs) - 1)) \o seqs[Len(seqs)]

\* The session identifiers of the log, in order of first appearance (the key
\* order of the defaultdict that get_trajectories fills).
RECURSIVE SessionOrder(_)
SessionOrder(log) ==
    IF log = <<>> THEN <<>>
    ELSE LET rest == SessionOrder(SubSeq(log, 1, Len(log) - 1))
             id == log[Len(log)].session_id
         IN IF \E k \in 1..Len(rest) : rest[k] = id THEN rest ELSE Append(rest, id)

\* The sort as it would be if it were not stable: an action goes before the
\* ones of its sequence number that are already placed.
RECURSIVE SortBySequenceNumUnstable(_)
SortBySequenceNumUnstable(traces) ==
    IF traces = <<>> THEN <<>>
    ELSE LET init == SortBySequenceNumUnstable(SubSeq(traces, 1, Len(traces) - 1))
             x == traces[Len(traces)]
             pos == Cardinality({k \in 1..Len(init) :
                                   init[k].sequence_num < x.sequence_num})
         IN SubSeq(init, 1, pos) \o <<x>> \o SubSeq(init, pos + 1, Len(init))

\* list.sort(key=lambda t: t.sequence_num): stable, ascending.
RECURSIVE SortBySequenceNum(_)
SortBySequenceNum(traces) ==
    IF traces = <<>> THEN <<>>
    ELSE LET init == SortBySequenceNum(SubSeq(traces, 1, Len(traces) - 1))
             x == traces[Len(traces)]
             pos == Cardinality({k \in 1..Len(init) :
                                   init[k].sequence_num <= x.sequence_num})
         IN SubSeq(init, 1, pos) \o <<x>> \o SubSeq(init, pos + 1, Len(init))

\* TraceAnalyzer.get_trajectories (analyzer.py:129-140): the session
\* identifiers in key order, and each session's traces sorted.
get_trajectories(log) ==
    LET ids == SessionOrder(log)
    IN [ids |-> ids,
        of |-> [id \in {ids[k] : k \in 1..Len(ids)} |->
                  SortBySequenceNum(SelectSeq(log, LAMBDA t : t.session_id = id))]]

\* The sequence mined as it would be if find_modality_patterns read the
\* tools as find_tool_sequences does.
ProjectionOfTools(kind, traces) ==
    [k \in 1..Len(traces) |-> traces[k].tool]

\* The sequence mined: the tools, or the modality values.
Projection(kind, traces) ==
    [k \in 1..Len(traces) |->
        IF kind = "tool" THEN traces[k].tool ELSE Modality_value(traces[k].modality)]

\* The loops over one session as they would be if the shortest length asked
\* for were skipped.
NgramOccurrencesLonger(id, traces, seq, min_length, max_length) ==
    LET hi == Min(max_length, Len(seq))
    IN Flatten([d \in 1..(hi - min_length) |->
           LET n == min_length + d
           IN [i \in 1..(Len(seq) - n + 1) |->
                 [ngram |-> SubSeq(seq, i, i + n - 1),
                  session |-> id,
                  duration |-> traces[i + n - 1].timestamp - traces[i].timestamp]]])

\* The two nested loops over one session (analyzer.py:183-193 and 230-233):
\* one entry per n-gram occurrence, in the order the loops append them.
NgramOccurrences(id, traces, seq, min_length, max_length) ==
    LET hi == Min(max_length, Len(seq))
    IN Flatten([d \in 1..(hi - min_length + 1) |->
           LET n == min_length + d - 1
           IN [i \in 1..(Len(seq) - n + 1) |->
                 [ngram |-> SubSeq(seq, i, i + n - 1),
                  session |-> id,
                  duration |-> traces[i + n - 1].timestamp - traces[i].timestamp]]])

\* The outer loop over the trajectories (analyzer.py:180 and 227).
AllOccurrences(kind, log, min_length, max_length) ==
    LET tr == get_trajectories(log)
    IN Flatten([k \in 1..Len(tr.ids) |->
           NgramOccurrences(tr.ids[k], tr.of[tr.ids[k]],
                            Projection(kind, tr.of[tr.ids[k]]),
                            min_length, max_length)])

\* The keys of ngram_sessions, in insertion order.
RECURSIVE NgramOrder(_)
NgramOrder(occs) ==
    IF occs = <<>> THEN <<>>
    ELSE LET rest == NgramOrder(SubSeq(occs, 1, Len(occs) - 1))
             g == occs[Len(occs)].ngram
         IN IF \E k \in 1..Len(rest) : rest[k] = g THEN rest ELSE Append(rest, g)

RECURSIVE SumDurations(_)
SumDurations(occs) ==
    IF occs = <<>> THEN 0
    ELSE SumDurations(SubSeq(occs, 1, Len(occs) - 1)) + occs[Len(occs)].duration

\* list(set(sessions))[:5]: the sessions of the n-gram, at most five of them.
ExampleSessions(ids) ==
    IF Cardinality(ids) <= ExampleCap THEN ids
    ELSE CHOOSE sub \in SUBSET ids : Cardinality(sub) = ExampleCap

\* The PatternMatch built for one n-gram from the entries appended for it
\* (analyzer.py:200-205 and 238-243); avg_duration_ms is kept as the exact
\* quotient <<sum, count>>, and is 0 for modality patterns.
PatternMatch(kind, g, occs) ==
    LET mine == SelectSeq(occs, LAMBDA o : o.ngram = g)
    IN [pattern |-> g,
        frequency |-> Len(mine),
        example_sessions |-> ExampleSessions({mine[k].session : k \in 1..Len(mine)}),
        avg_duration_ms |-> IF kind = "tool" THEN <<SumDurations(mine), Len(mine)>>
                            ELSE <<0, 1>>]

\* The sort as it would be without reverse=True: ascending.
RECURSIVE SortByFrequencyAscending(_)
SortByFrequencyAscending(ps) ==
    IF ps = <<>> THEN <<>>
    ELSE LET init == SortByFrequencyAscending(SubSeq(ps, 1, Len(ps) - 1))
             x == ps[Len(ps)]
             pos == Cardinality({k \in 1..Len(init) : init[k].frequency <= x.frequency})
         IN SubSeq(init, 1, pos) \o <<x>> \o SubSeq(init, pos + 1, Len(init))

\* patterns.sort(key=lambda p: p.frequency, reverse=True): stable, descending.
RECURSIVE SortByFrequency(_)
SortByFrequency(ps) ==
    IF ps = <<>> THEN <<>>
    ELSE LET init == SortByFrequency(SubSeq(ps, 1, Len(ps) - 1))
             x == ps[Len(ps)]
             pos == Cardinality({k \in 1..Len(init) : init[k].frequency >= x.frequency})
         IN SubSeq(init, 1, pos) \o <<x>> \o SubSeq(init, pos + 1, Len(init))

\* TraceAnalyzer.find_tool_sequences (analyzer.py:162-209) for kind "tool",
\* TraceAnalyzer.find_modality_patterns (analyzer.py:211-246) for "modality".
find_patterns(kind, log, min_length, max_length, min_frequency) ==
    LET occs == AllOccurrences(kind, log, min_length, max_length)
        keys == NgramOrder(occs)
        all == [k \in 1..Len(keys) |-> PatternMatch(kind, keys[k], occs)]
    IN SortByFrequency(SelectSeq(all, LAMBDA p : p.frequency >= min_frequency))

\* ---- the store the analyzer reads, and the calls made on it ----

\* The actions found in the store: four tools, two of one modality, and every
\* outcome.
StoredCalls ==
    { [tool |-> "bash_tool", cmd |-> {"ls"}, out |-> {}, paths |-> {},
       output |-> Chars(12), success |-> "True", error |-> None],
      [tool |-> "view", cmd |-> {}, out |-> {}, paths |-> {"a.py"},
       output |-> Chars(OutputCap + 1), success |-> "True", error |-> None],
      [tool |-> "create_file", cmd |-> {}, out |-> {"error"}, paths |-> {"a.py"},
       output |-> Chars(20), success |-> "False", error |-> "boom"],
      [tool |-> "str_replace", cmd |-> {}, out |-> {}, paths |-> {"b.py"},
       output |-> NoOutput, success |-> None, error |-> None] }

\* The sessions whose actions are in the store, oldest first.
StoredSessions == <<"s1", "s2">>

\* The arguments the analyzer is called with: bigrams only, or every length
\* from one to three; every n-gram, or the repeated ones.
Queries ==
    { q \in [kind : {"tool", "modality"}, min_length : {1, 2}, max_length : {2, 3},
             min_frequency : {1, 2}, arg : {None}] :
        <<q.min_length, q.max_length>> \in {<<2, 2>>, <<1, 3>>} }

\* An action of session StoredSessions[n] reaches the store through its
\* builder: it gets the session's next sequence number and the time of the
\* append. A session logs only before the next one starts: the earlier one
\* has been completed by then and its Session record written, the latest one
\* is still open.
StoreAppend(n, call) ==
    /\ program = "analyzer"
    /\ query = NoQuery
    /\ Len(store) < MaxStore
    /\ n \in 1..Len(StoredSessions)
    /\ \A k \in 1..Len(store) :
          \E m \in 1..n : store[k].session_id = StoredSessions[m]
    /\ LET mine == SelectSeq(store, LAMBDA t : t.session_id = StoredSessions[n])
       IN /\ Len(mine) < MaxLen
          /\ store' = Append(store,
                [session_id |-> StoredSessions[n],
                 sequence_num |-> Len(mine),
                 timestamp |-> Len(store),
                 tool |-> call.tool,
                 tool_type |-> from_tool_name(call.tool),
                 modality |-> infer_modality(call),
                 output |-> Truncate(call.output),
                 files_touched |-> extract_files_touched(call),
                 goal |-> "goal",
                 success |-> call.success,
                 error |-> call.error])
          /\ registry' =
                IF n > 1 /\ mine = <<>>
                THEN Append(registry,
                        [session_id |-> StoredSessions[n - 1], goal |-> "goal",
                         n_traces |-> Len(store), completed |-> TRUE,
                         success |-> "True"])
                ELSE registry
    /\ UNCHANGED <<program, sessions, current, currentGoal, scopes, raised>>
    /\ UNCHANGED <<cliVars, modelVars, callVars, stepVars, observerVars, analyzerVars>>

\* analyzer.find_tool_sequences(...) or analyzer.find_modality_patterns(...),
\* called on the store as loaded; the call reads the store and changes nothing
\* in it, so one call per run shows every result.
FindPatterns(q) ==
    /\ program = "analyzer"
    /\ query = NoQuery
    /\ query' = q
    /\ patterns' = find_patterns(q.kind, store, q.min_length, q.max_length,
                                 q.min_frequency)
    /\ UNCHANGED result
    /\ UNCHANGED <<program, loggerVars, cliVars, modelVars, callVars, stepVars, observerVars>>

\* ---- transitions ----

\* transitions[source][dest] += 1 on a defaultdict(Counter).
Bump(transitions, source, dest) ==
    LET counts == IF source \in DOMAIN transitions THEN transitions[source] ELSE NoDict
        count == IF dest \in DOMAIN counts THEN counts[dest] ELSE 0
    IN With(transitions, source, With(counts, dest, count + 1))

\* The inner loop over one sequence (analyzer.py:275-278), positions 1..i.
RECURSIVE CountPairs(_, _, _)
CountPairs(transitions, sequence, i) ==
    IF i < 1 THEN transitions
    ELSE Bump(CountPairs(transitions, sequence, i - 1), sequence[i], sequence[i + 1])

\* The outer loop over the first k trajectories (analyzer.py:269-278).
RECURSIVE CountSessions(_, _, _)
CountSessions(kind, tr, k) ==
    IF k < 1 THEN NoDict
    ELSE LET sequence == Projection(kind, tr.of[tr.ids[k]])
         IN CountPairs(CountSessions(kind, tr, k - 1), sequence, Len(sequence) - 1)

\* compute_transition_matrix as it would be if the whole log were walked as
\* one sequence, whatever the sessions of its actions.
compute_transition_matrix_flat(kind, log) ==
    CountPairs(NoDict, Projection(kind, log), Len(log) - 1)

\* TraceAnalyzer.compute_transition_matrix (analyzer.py:252-279); kind is
\* "modality" when use_modalities is set, "tool" otherwise.
compute_transition_matrix(kind, log) ==
    LET tr == get_trajectories(log)
    IN CountSessions(kind, tr, Len(tr.ids))

\* sum(counts.values())
RECURSIVE SumValues(_)
SumValues(counts) ==
    IF DOMAIN counts = {} THEN 0
    ELSE LET k == CHOOSE x \in DOMAIN counts : TRUE
         IN counts[k] + SumValues(Without(counts, k))

\* get_transition_probabilities as it would be if every count were divided by
\* the number of all transitions, whatever their source.
get_transition_probabilities_overall(kind, log) ==
    LET transitions == compute_transition_matrix(kind, log)
    IN [source \in DOMAIN transitions |->
          [dest \in DOMAIN transitions[source] |->
              <<transitions[source][dest],
                SumValues([s \in DOMAIN transitions |-> SumValues(transitions[s])])>>]]

\* TraceAnalyzer.get_transition_probabilities (analyzer.py:281-296); the
\* quotient count / total is kept exact, as <<count, total>>.
get_transition_probabilities(kind, log) ==
    LET transitions == compute_transition_matrix(kind, log)
    IN [source \in DOMAIN transitions |->
          [dest \in DOMAIN transitions[source] |->
              <<transitions[source][dest], SumValues(transitions[source])>>]]

\* A call of an analyzer method without pattern arguments.
Call(kind, arg) ==
    [kind |-> kind, min_length |-> 0, max_length |-> 0, min_frequency |-> 0,
     arg |-> arg]

\* analyzer.get_transition_probabilities(use_modalities), on the store as
\* loaded, for the first time or again.
GetTransitionProbabilities(kind) ==
    /\ program = "analyzer"
    /\ query \in {NoQuery, Call("transitions", kind)}
    /\ query' = Call("transitions", kind)
    /\ result' = get_transition_probabilities(kind, store)
    /\ UNCHANGED patterns
    /\ UNCHANGED <<program, loggerVars, cliVars, modelVars, callVars, stepVars, observerVars>>

\* analyzer.compute_transition_matrix(use_modalities), on the store as
\* loaded, for the first time or again.
ComputeTransitionMatrix(kind) ==
    /\ program = "analyzer"
    /\ query \in {NoQuery, Call("matrix", kind)}
    /\ query' = Call("matrix", kind)
    /\ result' = compute_transition_matrix(kind, store)
    /\ UNCHANGED patterns
    /\ UNCHANGED <<program, loggerVars, cliVars, modelVars, callVars, stepVars, observerVars>>

\* ---- statistics ----

\* Counter(values): how often each value occurs.
RECURSIVE Counter(_)
Counter(values) ==
    IF values = <<>> THEN NoDict
    ELSE LET rest == Counter(SubSeq(values, 1, Len(values) - 1))
             v == values[Len(values)]
         IN With(rest, v, IF v \in DOMAIN rest THEN rest[v] + 1 ELSE 1)

\* None, where a number is expected; a quotient n / d is kept exact, as <<n, d>>.
Absent == <<>>

\* The success rate as it would be if the successes were divided by the number
\* of all actions, known outcome or not.
success_rate_of_all(traces) ==
    IF Len(traces) > 0
    THEN <<Len(SelectSeq(traces, LAMBDA t : t.success = "True")), Len(traces)>>
    ELSE Absent

\* analyzer.py:76-81 and 107-111: with_outcome and success_rate.
success_rate(traces) ==
    LET with_outcome == SelectSeq(traces, LAMBDA t : t.success # None)
    IN IF Len(with_outcome) > 0
       THEN <<Len(SelectSeq(with_outcome, LAMBDA t : t.success = "True")),
              Len(with_outcome)>>
       ELSE Absent

\* max(timestamps) - min(timestamps)
TimeSpan(traces) ==
    LET ts == {traces[k].timestamp : k \in 1..Len(traces)}
    IN (CHOOSE hi \in ts : \A t \in ts : t <= hi)
         - (CHOOSE lo \in ts : \A t \in ts : lo <= t)

\* TraceAnalyzer.get_overall_stats (analyzer.py:61-91).
get_overall_stats(log) ==
    IF log = <<>>
    THEN [total_traces |-> 0]
    ELSE LET sessions_ == Counter([k \in 1..Len(log) |-> log[k].session_id])
         IN [total_traces |-> Len(log),
             unique_sessions |-> Cardinality(DOMAIN sessions_),
             tools |-> Counter([k \in 1..Len(log) |-> log[k].tool]),
             modalities |-> Counter([k \in 1..Len(log) |->
                                       Modality_value(log[k].modality)]),
             time_span_hours |-> <<TimeSpan(log), 3600000>>,
             success_rate |-> success_rate(log),
             avg_traces_per_session |-> <<Len(log), Cardinality(DOMAIN sessions_)>>]

\* storage.iter_traces(session_id=...): the session's actions, in store order.
iter_traces(log, session_id) == SelectSeq(log, LAMBDA t : t.session_id = session_id)

\* TraceAnalyzer.get_session_stats (analyzer.py:93-123): None, here <<>>, for
\* a session without actions, else the TrajectoryStats, here <<stats>>.
get_session_stats(log, session_id) ==
    LET traces == iter_traces(log, session_id)
    IN IF traces = <<>>
       THEN <<>>
       ELSE << [length |-> Len(traces),
                duration_ms |-> traces[Len(traces)].timestamp - traces[1].timestamp,
                tools_used |-> Counter([k \in 1..Len(traces) |-> traces[k].tool]),
                modalities |-> Counter([k \in 1..Len(traces) |-> traces[k].modality]),
                unique_files |-> UNION {traces[k].files_touched : k \in 1..Len(traces)},
                error_count |-> Len(SelectSeq(traces, LAMBDA t : t.error # None)),
                success_rate |-> success_rate(traces)] >>

\* The session identifiers statistics are asked for: the stored ones and one
\* that no action carries.
AskedSessions == {"s1", "s2", "s0"}

\* analyzer.get_overall_stats()
GetOverallStats ==
    /\ program = "analyzer"
    /\ query \in {NoQuery, Call("overall_stats", None)}
    /\ query' = Call("overall_stats", None)
    /\ result' = get_overall_stats(store)
    /\ UNCHANGED patterns
    /\ UNCHANGED <<program, loggerVars, cliVars, modelVars, callVars, stepVars, observerVars>>

\* analyzer.get_session_stats(session_id)
GetSessionStats(session_id) ==
    /\ program = "analyzer"
    /\ query \in {NoQuery, Call("session_stats", session_id)}
    /\ query' = Call("session_stats", session_id)
    /\ result' = get_session_stats(store, session_id)
    /\ UNCHANGED patterns
    /\ UNCHANGED <<program, loggerVars, cliVars, modelVars, callVars, stepVars, observerVars>>

\* ---- exports ----

\* The datetime of a time kept in milliseconds.
At(ms) == [sec |-> ms \div 1000, usec |-> (ms % 1000) * 1000]

\* sessions.get(session_id) over storage.iter_sessions(): the Session
\* records with that identifier; none when the session was never completed.
SessionRecords(session_id) ==
    SelectSeq(registry, LAMBDA r : r.session_id = session_id)

\* One entry of export_sequences_for_training (analyzer.py:320-334).
SequenceExport(session_id, traces, include_outcome) ==
    LET found == SessionRecords(session_id)
        export ==
            [session_id |-> session_id,
             goal |-> IF found # <<>> THEN found[Len(found)].goal
                      ELSE IF traces # <<>> THEN traces[1].goal ELSE None,
             tool_sequence |-> [k \in 1..Len(traces) |-> traces[k].tool],
             modality_sequence |-> [k \in 1..Len(traces) |->
                                      Modality_value(traces[k].modality)],
             timestamps |-> [k \in 1..Len(traces) |->
                               isoformat(At(traces[k].timestamp))]]
    IN IF include_outcome = "True" /\ found # <<>>
       THEN With(export, "success", found[Len(found)].success)
       ELSE export

\* TraceAnalyzer.export_sequences_for_training (analyzer.py:302-336).
export_sequences_for_training(log, include_outcome) ==
    LET tr == get_trajectories(log)
    IN [k \in 1..Len(tr.ids) |->
          SequenceExport(tr.ids[k], tr.of[tr.ids[k]], include_outcome)]

\* One entry of export_for_tgnn (analyzer.py:349-380): ids count from 0.
GraphExport(session_id, traces) ==
    [session_id |-> session_id,
     nodes |-> [i \in 1..Len(traces) |->
                  [id |-> i - 1,
                   tool |-> traces[i].tool,
                   tool_type |-> ToolType_value(traces[i].tool_type),
                   modality |-> Modality_value(traces[i].modality),
                   has_error |-> traces[i].error \notin {None, ""},
                   files_count |-> Cardinality(traces[i].files_touched),
                   output_length |-> len(traces[i].output),
                   temporal_position |-> <<i - 1, Len(traces)>>]],
     edges |-> [i \in 1..(Len(traces) - 1) |->
                  [source |-> i - 1, target |-> i, type |-> "temporal"]]]

\* TraceAnalyzer.export_for_tgnn (analyzer.py:338-382).
export_for_tgnn(log) ==
    LET tr == get_trajectories(log)
    IN [k \in 1..Len(tr.ids) |-> GraphExport(tr.ids[k], tr.of[tr.ids[k]])]

\* analyzer.export_sequences_for_training(include_outcome)
ExportSequences(include_outcome) ==
    /\ program = "analyzer"
    /\ query \in {NoQuery, Call("export_sequences", include_outcome)}
    /\ query' = Call("export_sequences", include_outcome)
    /\ result' = export_sequences_for_training(store, include_outcome)
    /\ UNCHANGED patterns
    /\ UNCHANGED <<program, loggerVars, cliVars, modelVars, callVars, stepVars, observerVars>>

\* The identifiers under which actions are logged: two session identifiers,
\* and the one of the actions logged outside every session.
LoggedIds == {"s1", "s2", "anonymous"}

\* The actions logged for the trajectories: two tools of two modalities.
LoggedCalls == {c \in StoredCalls : c.tool \in {"bash_tool", "create_file"}}

\* An action reaches the store under any identifier, in any interleaving.
\* Outside a session it keeps the sequence number 0 log_action gave it; in a
\* session it gets its builder's next number, which is the one after the
\* identifier's latest action, or 0 when the session is a new one opened
\* under an identifier that was used before (session(session_id=...)).
StoreLogged(id, fresh, call) ==
    /\ program = "trajectories"
    /\ query = NoQuery
    /\ Len(store) < MaxLogged
    /\ LET mine == SelectSeq(store, LAMBDA t : t.session_id = id)
       IN /\ (id = "anonymous" \/ mine = <<>>) => fresh
          /\ store' = Append(store,
                [session_id |-> id,
                 sequence_num |->
                    IF fresh THEN 0 ELSE mine[Len(mine)].sequence_num + 1,
                 timestamp |-> Len(store),
                 tool |-> call.tool,
                 tool_type |-> from_tool_name(call.tool),
                 modality |-> infer_modality(call),
                 output |-> Truncate(call.output),
                 files_touched |-> extract_files_touched(call),
                 goal |-> IF id = "anonymous" THEN None ELSE "goal",
                 success |-> call.success,
                 error |-> call.error])
    /\ UNCHANGED <<program, sessions, current, currentGoal, scopes, registry, raised>>
    /\ UNCHANGED <<cliVars, modelVars, callVars, stepVars, observerVars, analyzerVars>>

\* analyzer.get_trajectories()
GetTrajectories ==
    /\ program \in {"analyzer", "trajectories"}
    /\ query \in {NoQuery, Call("trajectories", None)}
    /\ query' = Call("trajectories", None)
    /\ result' = get_trajectories(store)
    /\ UNCHANGED patterns
    /\ UNCHANGED <<program, loggerVars, cliVars, modelVars, callVars, stepVars, observerVars>>

\* export_for_tgnn as it would be if it consumed the actions it exports.
ExportForTgnnDraining ==
    /\ program = "analyzer"
    /\ query \in {NoQuery, Call("export_tgnn", None)}
    /\ query' = Call("export_tgnn", None)
    /\ result' = export_for_tgnn(store)
    /\ store' = <<>>
    /\ UNCHANGED patterns
    /\ UNCHANGED <<program, sessions, current, currentGoal, scopes, registry, raised>>
    /\ UNCHANGED <<cliVars, modelVars, callVars, stepVars, observerVars>>

\* analyzer.export_for_tgnn()
ExportForTgnn ==
    /\ program = "analyzer"
    /\ query \in {NoQuery, Call("export_tgnn", None)}
    /\ query' = Call("export_tgnn", None)
    /\ result' = export_for_tgnn(store)
    /\ UNCHANGED patterns
    /\ UNCHANGED <<program, loggerVars, cliVars, modelVars, callVars, stepVars, observerVars>>

\* ---- single calls: log_action with any arguments, and wrapped tools ----

\* The outputs passed: none, short ones, and ones around the cap.
OutputLengths == (0..MaxShort) \cup ((OutputCap - MaxShort)..(OutputCap + MaxShort))
Outputs == {NoOutput} \cup {Chars(n) : n \in OutputLengths}

\* The tools, commands and outputs _infer_modality tells apart: a tool of
\* each of its lists and one of none; a command with a word of the touch
\* list, with one of the run list, or with neither; an output with or without
\* an error marker.
ModalityCalls ==
    [tool : {"bash_tool", "view", "web_search", "create_file", "other"},
     cmd : {{}, {"ls"}, {"python"}}, out : {{}, {"error"}}, paths : {{}},
     output : {Chars(OutputCap)}, success : {None}, error : {None}]

\* log_action's arguments: success and error are independent parameters.
CallArgs ==
    [tool : {"bash_tool"}, cmd : {{}}, out : {{}}, paths : {{}}, output : Outputs,
     success : Tristate, error : {None, "boom"}]
      \cup ModalityCalls

\* What a wrapped function does: it returns a text (or None), or raises an
\* Exception with a message, or is left by an exception that is no Exception,
\* as KeyboardInterrupt and SystemExit are.
WrappedOutcomes ==
    [kind : {"return"}, output : Outputs, message : {""}]
      \cup [kind : {"Exception"}, output : {NoOutput}, message : {"boom", ""}]
      \cup [kind : {"KeyboardInterrupt"}, output : {NoOutput}, message : {""}]

\* The log_action call of the wrapper's finally block (logger.py:221-230),
\* from the locals error, output and success as lines 212-220 leave them.
WrapperCall(tool_name, outcome) ==
    [tool |-> tool_name, cmd |-> {}, out |-> {}, paths |-> {},
     output |-> IF outcome.kind = "return" /\ outcome.output.given
                   /\ len(outcome.output) > 0
                THEN outcome.output ELSE Chars(0),
     success |-> IF outcome.kind = "Exception" THEN "False" ELSE "True",
     error |-> IF outcome.kind = "Exception" THEN outcome.message ELSE None]

\* logger.log_action(...) called directly.
LogActionWith(call) ==
    /\ program = "calls"
    /\ Len(store) < MaxCalls
    /\ log_action(call)
    /\ called' = [via |-> "log_action", kind |-> "return", output |-> call.output,
                  message |-> ""]
    /\ UNCHANGED <<current, currentGoal, scopes, registry>>
    /\ UNCHANGED <<program, cliVars, modelVars, analyzerVars, stepVars, observerVars>>

\* One call of a function decorated with logger.wrap_tool("bash_tool")
\* (logger.py:208-230): the function runs, then the finally block logs.
WrappedCall(outcome) ==
    /\ program = "calls"
    /\ Len(store) < MaxCalls
    /\ log_action(WrapperCall("bash_tool", outcome))
    /\ called' = [via |-> "wrap_tool", kind |-> outcome.kind,
                  output |-> outcome.output, message |-> outcome.message]
    /\ UNCHANGED <<current, currentGoal, scopes, registry>>
    /\ UNCHANGED <<program, cliVars, modelVars, analyzerVars, stepVars, observerVars>>

\* What the last call raised to its caller: the exception of log_action if
\* it raised one, which in a finally block replaces any other; else the
\* exception that left the wrapped function.
Propagated ==
    IF raised # "none" THEN raised
    ELSE IF called.via = "wrap_tool" /\ called.kind # "return" THEN called.kind
    ELSE "none"

----------------------------------------------------------------------------
(* The lifecycle specification: one run is one of the two programs.        *)

InitLogger ==
    /\ sessions = <<>>
    /\ current = 0
    /\ currentGoal = None
    /\ scopes = <<>>
    /\ store = <<>>
    /\ registry = <<>>
    /\ raised = "none"

\* No record is being converted.
InitModels ==
    /\ obj = NoDict
    /\ ser = NoDict
    /\ back = NoResult

\* No call has been made.
InitCalls == called = NoCall

InitSteps == procs = [p \in LogProcesses |-> Idle]

InitObserver ==
    /\ SEQUENCE = 0
    /\ liveTrace = <<>>
    /\ stats = NoStats

\* No analysis has been asked for.
InitAnalyzer ==
    /\ query = NoQuery
    /\ patterns = <<>>
    /\ result = <<>>

InitCli ==
    /\ sessionFile = <<>>
    /\ traceFile = <<>>
    /\ archives = NoFiles
    /\ clock = 0
    /\ commands = 0

Init ==
    /\ program \in {"logger", "cli"}
    /\ InitLogger
    /\ InitCli
    /\ InitModels
    /\ InitAnalyzer
    /\ InitCalls
    /\ InitSteps
    /\ InitObserver

Next ==
    \/ \E g \in Goals : OpenSession(g)
    \/ \E i \in 1..Len(sessions), f \in Tristate : CompleteSession(i, f)
    \/ ExitSession
    \/ \E c \in LogCalls : LogAction(c)
    \/ cmd_start("goal")
    \/ \E ok \in BOOLEAN : cmd_end(ok)
    \/ \E t \in CliTools, e \in CliErrors : cmd_log(t, e)
    \/ Tick

Spec == Init /\ [][Next]_vars

----------------------------------------------------------------------------
(* The conversion specification: a record is written as a dictionary, the  *)
(* dictionary may change the way a schema change changes it, and is read.  *)

ModelsInit ==
    /\ program = "models"
    /\ InitLogger
    /\ InitCli
    /\ InitAnalyzer
    /\ InitCalls
    /\ InitSteps
    /\ InitObserver
    /\ obj \in Objects
    /\ ser = NoDict
    /\ back = NoResult

ModelsNext ==
    \/ Serialize
    \/ AddField
    \/ \E k \in 1..MaxSessionTraces : AddTraceField(k)
    \/ \E f \in TraceFields \cup SessionFields : DropField(f)
    \/ \E f \in {"tool_type", "modality"} : SetTag(f)
    \/ Deserialize

SpecModels == ModelsInit /\ [][ModelsNext]_vars

----------------------------------------------------------------------------
(* The analysis specification: sessions fill the store, then the analyzer  *)
(* is called on it.                                                        *)

AnalyzerInit ==
    /\ program = "analyzer"
    /\ InitLogger
    /\ InitCli
    /\ InitModels
    /\ InitAnalyzer
    /\ InitCalls
    /\ InitSteps
    /\ InitObserver

AnalyzerNext ==
    \/ \E n \in 1..Len(StoredSessions), c \in StoredCalls : StoreAppend(n, c)
    \/ \E q \in Queries : FindPatterns(q)
    \/ \E k \in {"tool", "modality"} : GetTransitionProbabilities(k)
    \/ \E k \in {"tool", "modality"} : ComputeTransitionMatrix(k)
    \/ GetOverallStats
    \/ \E id \in AskedSessions : GetSessionStats(id)
    \/ \E o \in {"True", "False"} : ExportSequences(o)
    \/ ExportForTgnn
    \/ GetTrajectories

SpecAnalyzer == AnalyzerInit /\ [][AnalyzerNext]_vars

----------------------------------------------------------------------------
(* The trajectory specification: actions of sessions, of reopened sessions *)
(* and of no session reach the store in any order, then the trajectories   *)
(* are asked for.                                                          *)

TrajectoriesInit ==
    /\ program = "trajectories"
    /\ InitLogger
    /\ InitCli
    /\ InitModels
    /\ InitAnalyzer
    /\ InitCalls
    /\ InitSteps
    /\ InitObserver

TrajectoriesNext ==
    \/ \E id \in LoggedIds, fresh \in BOOLEAN, c \in LoggedCalls :
          StoreLogged(id, fresh, c)
    \/ GetTrajectories

SpecTrajectories == TrajectoriesInit /\ [][TrajectoriesNext]_vars

----------------------------------------------------------------------------
(* The step specification: after `trace.py start`, `log` commands run as   *)
(* processes whose steps interleave and which can be interrupted.          *)

StepsInit ==
    /\ program = "steps"
    /\ InitLogger
    /\ sessionFile = <<[session_id |-> strftime(0), goal |-> "goal", sequence |-> 0]>>
    /\ traceFile = <<>>
    /\ archives = NoFiles
    /\ clock = 0
    /\ commands = 0
    /\ InitModels
    /\ InitAnalyzer
    /\ InitCalls
    /\ InitSteps
    /\ InitObserver

StepsNext ==
    \/ \E p \in LogProcesses : LogGetSession(p)
    \/ \E p \in LogProcesses : LogAppendTrace(p)
    \/ \E p \in LogProcesses : LogWriteSession(p)
    \/ \E p \in LogProcesses : LogInterrupted(p)

SpecSteps == StepsInit /\ [][StepsNext]_vars

----------------------------------------------------------------------------
(* The observer specification: one server process serves observed tools;   *)
(* TRACE_FILE is new, or holds what an earlier process appended.           *)

ObserverInit ==
    /\ program = "observer"
    /\ InitLogger
    /\ InitCli
    /\ InitModels
    /\ InitAnalyzer
    /\ InitCalls
    /\ InitSteps
    /\ SEQUENCE = 0
    /\ stats = NoStats
    /\ liveTrace \in { <<>>,
                        <<[session_id |-> EarlierId, sequence |-> 0,
                           tool |-> "bash", success |-> TRUE]>> }

ObserverNext ==
    \/ \E c \in ObservedCalls, appended \in BOOLEAN : ObservedCall(c, appended)
    \/ ObserverGetSessionStats

SpecObserver == ObserverInit /\ [][ObserverNext]_vars

----------------------------------------------------------------------------
(* The call specification: a logger with no session, with an open one or   *)
(* with one completed inside its scope; log_action and wrapped tools are   *)
(* called on it.                                                           *)

OpenBuilder == NewBuilder(IdPool[1], "goal")
ClosedBuilder == [OpenBuilder EXCEPT !.completed = TRUE, !.success = "True"]

CallsInit ==
    /\ program = "calls"
    /\ store = <<>>
    /\ raised = "none"
    /\ \/ /\ sessions = <<>> /\ current = 0 /\ currentGoal = None
          /\ scopes = <<>> /\ registry = <<>>
       \/ /\ sessions = <<OpenBuilder>> /\ current = 1 /\ currentGoal = "goal"
          /\ scopes = <<1>> /\ registry = <<>>
       \/ /\ sessions = <<ClosedBuilder>> /\ current = 1 /\ currentGoal = "goal"
          /\ scopes = <<1>>
          /\ registry = <<[session_id |-> IdPool[1], goal |-> "goal", n_traces |-> 0,
                           completed |-> TRUE, success |-> "True"]>>
    /\ InitCli
    /\ InitModels
    /\ InitAnalyzer
    /\ InitCalls
    /\ InitSteps
    /\ InitObserver

CallsNext ==
    \/ \E c \in CallArgs : LogActionWith(c)
    \/ \E o \in WrappedOutcomes : WrappedCall(o)

SpecCalls == CallsInit /\ [][CallsNext]_vars

----------------------------------------------------------------------------
(* Session lifecycle: claims C1-C5.                                        *)

Range(seq) == {seq[k] : k \in 1..Len(seq)}

\* The stored actions that carry a session identifier, in append order.
StoredOf(id) == SelectSeq(store, LAMBDA t : t.session_id = id)

C2_ClosedSessionRejectsAppend ==
    [][\A c \in LogCalls :
          (current # 0 /\ sessions[current].completed /\ LogAction(c))
          => /\ raised' = "SessionStateError"
             /\ store' = store
             /\ sessions' = sessions
             /\ registry' = registry]_vars

\* A log_action has been rejected by the completed current session, which had
\* stored an action before it was completed.
C2_Witness ==
    /\ raised = "SessionStateError"
    /\ current # 0
    /\ sessions[current].completed
    /\ Len(sessions[current].traces) >= 1

C4_EveryLeftSessionClosed ==
    \A i \in 1..Len(sessions) :
        i \notin Range(scopes) => sessions[i].completed

\* C5: at most one session is open under a logger, and the logger never
\* leaves behind a session that is neither current nor closed.
C5_AtMostOneOpenSession ==
    /\ Cardinality({i \in 1..Len(sessions) : ~sessions[i].completed}) <= 1
    /\ \A i \in 1..Len(sessions) : i # current => sessions[i].completed

----------------------------------------------------------------------------
(* Serialization: claims C6-C8.                                            *)

\* The dictionary is exactly what to_dict wrote, and it has been read back.
ReadBackUnchanged == back.status # "none" /\ ser = to_dict(obj)

\* C6: round trip. Reading back the dictionary that to_dict wrote for a
\* valid ActionTrace or Session (with its nested traces) returns a record
\* equal to the original.
C6_RoundTrip == ReadBackUnchanged => back = Returned(obj.value)

\* A session holding a trace with non-zero microseconds, a tool type and a
\* modality other than UNKNOWN, was written and read back.
C6_Witness ==
    /\ ReadBackUnchanged
    /\ obj.kind = "Session"
    /\ \E k \in 1..Len(obj.value.traces) :
          /\ obj.value.traces[k].timestamp.usec # 0
          /\ obj.value.traces[k].tool_type = "BASH"
          /\ obj.value.traces[k].modality = "TOUCH"
    /\ back.status = "ok"

\* C7: an action dictionary whose tool_type or modality tag is not a
\* recognized category deserializes, with that category set to UNKNOWN.
C7_UnknownTagFallsBack ==
    (/\ obj.kind = "ActionTrace"
     /\ back.status # "none"
     /\ DOMAIN ser = TraceFields
     /\ (ser.tool_type \notin ToolTypeValues \/ ser.modality \notin ModalityValues))
    => /\ back.status = "ok"
       /\ ser.tool_type \notin ToolTypeValues => back.value.tool_type = "UNKNOWN"
       /\ ser.modality \notin ModalityValues => back.value.modality = "UNKNOWN"

\* The dictionary has every field without a default and only recognized tags,
\* also in the traces nested in it.
RequiredAndRecognized(kind, d) ==
    IF kind = "ActionTrace"
    THEN /\ TraceRequired \subseteq DOMAIN d
         /\ d.tool_type \in ToolTypeValues
         /\ "modality" \in DOMAIN d => d.modality \in ModalityValues
    ELSE SessionRequired \subseteq DOMAIN d

\* C8: additive schema evolution. A dictionary that carries extra fields, or
\* lacks optional ones, deserializes: the extra fields are ignored and each
\* missing optional field takes its default.
C8_AdditiveEvolutionTolerated ==
    (back.status # "none" /\ RequiredAndRecognized(obj.kind, ser))
    => /\ back.status = "ok"
       /\ \A f \in DOMAIN back.value :
            back.value[f] = IF f \in DOMAIN ser THEN obj.value[f]
                            ELSE IF obj.kind = "ActionTrace" THEN TraceDefault(f)
                            ELSE SessionDefault(f)

\* The sessions of the store in which n-gram g occurs, as the claims count
\* them: a session counts once however often g occurs in it.
SessionsContaining(kind, g) ==
    LET tr == get_trajectories(store)
    IN { id \in {tr.ids[k] : k \in 1..Len(tr.ids)} :
           LET seq == Projection(kind, tr.of[id])
           IN \E i \in 1..(Len(seq) - Len(g) + 1) : SubSeq(seq, i, i + Len(g) - 1) = g }

\* Every n-gram of the store within the length limits of the query.
Candidates(q) ==
    LET tr == get_trajectories(store)
    IN UNION { LET seq == Projection(q.kind, tr.of[tr.ids[k]])
               IN { SubSeq(seq, w[1], w[1] + w[2] - 1) :
                      w \in { v \in (1..Len(seq)) \X (q.min_length..q.max_length) :
                                v[1] + v[2] - 1 <= Len(seq) } }
               : k \in 1..Len(tr.ids) }

\* C9: the frequency reported for an n-gram, of tools or of modalities, is the
\* number of distinct sessions in which the n-gram occurs.
C9_FrequencyCountsDistinctSessions ==
    query # NoQuery =>
        \A k \in 1..Len(patterns) :
            patterns[k].frequency =
                Cardinality(SessionsContaining(query.kind, patterns[k].pattern))

\* The store of the example: sessions [A, B, C] and [A, B, D].
ExampleStore ==
    /\ Projection("tool", SelectSeq(store, LAMBDA t : t.session_id = "s1"))
           = <<"bash_tool", "view", "create_file">>
    /\ Projection("tool", SelectSeq(store, LAMBDA t : t.session_id = "s2"))
           = <<"bash_tool", "view", "str_replace">>

\* C10: a tool n-gram is returned exactly when at least min_frequency
\* sessions contain it; mining [A, B, C] and [A, B, D] for bigrams in at
\* least two sessions returns [A, B] with frequency 2 and nothing else.
C10_RetainedIffEnoughSessions ==
    query.kind = "tool" =>
        /\ \A g \in Candidates(query) :
              (\E k \in 1..Len(patterns) : patterns[k].pattern = g)
                  <=> Cardinality(SessionsContaining("tool", g)) >= query.min_frequency
        /\ (ExampleStore /\ query.min_length = 2 /\ query.max_length = 2
                /\ query.min_frequency = 2)
              => /\ Len(patterns) = 1
                 /\ patterns[1].pattern = <<"bash_tool", "view">>
                 /\ patterns[1].frequency = 2

\* The sequences of the store in which the analyzer looks for transitions.
SequencesOf(kind) ==
    LET tr == get_trajectories(store)
    IN { Projection(kind, tr.of[tr.ids[k]]) : k \in 1..Len(tr.ids) }

\* C11: for every source with an observed outgoing transition, the
\* probabilities get_transition_probabilities returns for it are its counts
\* over their sum, so they sum to 1, and every such source is in the result.
C11_TransitionProbabilitiesSumToOne ==
    query.kind = "transitions" =>
        /\ \A source \in DOMAIN result :
              LET counts == compute_transition_matrix(query.arg, store)[source]
                  total == SumValues(counts)
              IN /\ total > 0
                 /\ DOMAIN result[source] = DOMAIN counts
                 /\ \A dest \in DOMAIN counts :
                       result[source][dest] = <<counts[dest], total>>
                 /\ SumValues([dest \in DOMAIN counts |-> result[source][dest][1]])
                       = total
        /\ \A seq \in SequencesOf(query.arg) :
              \A i \in 1..(Len(seq) - 1) : seq[i] \in DOMAIN result

\* C11 witness: a source with two different destinations has been given its
\* probabilities.
C11_Witness ==
    /\ query.kind = "transitions"
    /\ \E source \in DOMAIN result : Cardinality(DOMAIN result[source]) = 2

\* The actions the last statistics call was about.
Considered ==
    IF query.kind = "session_stats"
    THEN SelectSeq(store, LAMBDA t : t.session_id = query.arg)
    ELSE store

Succeeded == Len(SelectSeq(Considered, LAMBDA t : t.success = "True"))
Known == Len(SelectSeq(Considered, LAMBDA t : t.success \in {"True", "False"}))

\* C12: the success rate of get_overall_stats and of get_session_stats is
\* the number of successful actions over the number of actions with a known
\* outcome; with no known outcome it is absent and nothing is divided by zero.
C12_SuccessRateOverKnownOutcomes ==
    /\ query.kind = "overall_stats" =>
          IF store = <<>>
          THEN "success_rate" \notin DOMAIN result
          ELSE result.success_rate =
                  IF Known = 0 THEN Absent ELSE <<Succeeded, Known>>
    /\ query.kind = "session_stats" =>
          IF Considered = <<>>
          THEN result = <<>>
          ELSE result[1].success_rate =
                  IF Known = 0 THEN Absent ELSE <<Succeeded, Known>>

\* C12 witness: statistics of one session of which one action succeeded,
\* one failed and one has no known outcome.
C12_Witness ==
    /\ query.kind = "session_stats"
    /\ Succeeded = 1 /\ Known = 2 /\ Len(Considered) = 3
    /\ result[1].success_rate = <<1, 2>>

\* C13: over an empty store get_overall_stats reports zero actions, zero
\* distinct sessions and an absent success rate, and pattern mining,
\* transition modeling and both exports return empty collections.
C13_EmptyStoreGivesEmptyResults ==
    store = <<>> =>
        /\ query.kind = "overall_stats" =>
              /\ "total_traces" \in DOMAIN result /\ result.total_traces = 0
              /\ "unique_sessions" \in DOMAIN result /\ result.unique_sessions = 0
              /\ "success_rate" \in DOMAIN result => result.success_rate = Absent
        /\ query.kind \in {"tool", "modality"} => patterns = <<>>
        /\ query.kind \in {"transitions", "export_sequences", "export_tgnn"} =>
              DOMAIN result = {}

C15_TemporalEdgesPointToPredecessor ==
    query.kind = "export_tgnn" =>
        \A k \in 1..Len(result) :
            LET traces == get_trajectories(store).of[result[k].session_id]
                L == Len(traces)
                nodes == result[k].nodes
                edges == result[k].edges
            IN /\ Len(nodes) = L
               /\ \A i \in 1..L :
                     /\ nodes[i].id = i - 1
                     /\ nodes[i].tool = traces[i].tool
                     /\ nodes[i].temporal_position = <<i - 1, L>>
               /\ Len(edges) = L - 1
               /\ \A i \in 1..(L - 1) :
                     \E j \in 1..Len(edges) :
                         edges[j].source = i /\ edges[j].target = i - 1
               /\ \A j \in 1..Len(edges) : edges[j].source # 0

\* C17: get_overall_stats reports as total_traces the number of stored
\* actions and as unique_sessions the number of distinct session_id values
\* among them; for s1 = [bash, view, bash] and s2 = [bash, view], all
\* successful, it reports 5 actions, 2 sessions and a success rate of 1.
C17_OverallStatsCountActionsAndSessions ==
    query.kind = "overall_stats" =>
        /\ "total_traces" \in DOMAIN result
        /\ result.total_traces = Len(store)
        /\ "unique_sessions" \in DOMAIN result
        /\ result.unique_sessions =
              Cardinality({store[k].session_id : k \in 1..Len(store)})
        /\ ( /\ Projection("tool", iter_traces(store, "s1"))
                    = <<"bash_tool", "view", "bash_tool">>
             /\ Projection("tool", iter_traces(store, "s2")) = <<"bash_tool", "view">> )
              => /\ result.total_traces = 5
                 /\ result.unique_sessions = 2
                 /\ result.success_rate = <<5, 5>>

\* C20: pattern mining returns only contiguous subsequences of a session's
\* sequence whose length lies between min_length and max_length, returns
\* every one of them when min_frequency is 1, and takes none from a session
\* shorter than min_length.
C20_PatternsAreTheContiguousSubsequences ==
    query.kind \in {"tool", "modality"} =>
        LET returned == {patterns[k].pattern : k \in 1..Len(patterns)}
            tr == get_trajectories(store)
        IN /\ returned \subseteq Candidates(query)
           /\ \A g \in returned :
                 /\ query.min_length <= Len(g) /\ Len(g) <= query.max_length
                 /\ SessionsContaining(query.kind, g) # {}
           /\ query.min_frequency = 1 => returned = Candidates(query)
           /\ \A k \in 1..Len(patterns) :
                 \A id \in patterns[k].example_sessions :
                     Len(tr.of[id]) >= query.min_length

\* C20 witness: bigrams were mined from a store with a session of three
\* actions and a session of one action, and some were returned.
C20_Witness ==
    /\ query.kind \in {"tool", "modality"}
    /\ query.min_length = 2 /\ query.min_frequency = 1
    /\ Len(iter_traces(store, "s1")) = 3
    /\ Len(iter_traces(store, "s2")) = 1
    /\ Len(patterns) = 2

\* The action the last call added at the end of the log.
Logged == store[Len(store)]

\* C16: a call of a function wrapped with wrap_tool logs exactly one action;
\* when the function raises, the action has success = false and the
\* exception's message as error, and the caller gets that exception.
C16_WrappedCallAlwaysLogged ==
    [][\A o \in WrappedOutcomes :
          WrappedCall(o) =>
              /\ Len(store') = Len(store) + 1
              /\ o.kind # "return" =>
                    /\ Logged'.success = "False"
                    /\ Logged'.error = o.message
                    /\ Propagated' = o.kind]_vars

\* The first OutputCap characters of a text, the text itself when it has no
\* more, and the empty text for no text.
FirstChars(output) ==
    IF ~output.given THEN Chars(0)
    ELSE [given |-> TRUE, lo |-> output.lo,
          hi |-> IF output.hi - output.lo <= OutputCap THEN output.hi
                 ELSE output.lo + OutputCap]

\* C18: every action log_action creates has an output of at most 10,000
\* characters: the first 10,000 of a longer one, a shorter one unchanged, and
\* the empty string for an absent or empty one.
C18_OutputTruncated ==
    /\ [](\A k \in 1..Len(store) :
             store[k].output.given /\ len(store[k].output) <= OutputCap)
    /\ [][\A c \in CallArgs :
             (LogActionWith(c) /\ Len(store') = Len(store) + 1)
                 => Logged'.output = FirstChars(c.output)]_vars

\* C18 witness: log_action was given an output longer than the cap and has
\* stored an action with exactly OutputCap characters of output.
C18_Witness ==
    /\ called.via = "log_action"
    /\ len(called.output) > OutputCap
    /\ store # <<>>
    /\ len(Logged.output) = OutputCap

\* C19: no stored action has a non-empty error unless its success is false.
C19_ErrorOnlyWhenFailed ==
    \A k \in 1..Len(store) :
        store[k].error \notin {None, ""} => store[k].success = "False"

\* The states a transition matrix can mention.
StatesOf(kind) ==
    IF kind = "tool" THEN {c.tool : c \in StoredCalls} ELSE ModalityValues

\* The sequence of one session of the store: its actions in the order of
\* their sequence numbers, seen as tools or as modalities.
SequenceOfSession(kind, id) ==
    LET mine == SelectSeq(store, LAMBDA t : t.session_id = id)
    IN [k \in 1..Len(mine) |->
          LET t == CHOOSE t \in Range(mine) : t.sequence_num = k - 1
          IN IF kind = "tool" THEN t.tool ELSE Modality_value(t.modality)]

\* The positions (session, i) at which source is followed by dest.
PairPositions(kind, source, dest) ==
    { p \in {s.session_id : s \in Range(store)} \X (1..MaxStore) :
        LET seq == SequenceOfSession(kind, p[1])
        IN /\ p[2] < Len(seq)
           /\ seq[p[2]] = source
           /\ seq[p[2] + 1] = dest }

\* The count the matrix holds for a pair, 0 when the pair is absent.
CountOf(matrix, source, dest) ==
    IF source \in DOMAIN matrix /\ dest \in DOMAIN matrix[source]
    THEN matrix[source][dest] ELSE 0

\* C21: compute_transition_matrix returns, for every pair (source, dest), the
\* number of positions i over all sessions at which the session's sequence
\* has source at i and dest at i + 1; no pair is stored with a count of 0,
\* the counts sum to the sum over the sessions of (length - 1), and so no
\* pair spanning two sessions is counted.
C21_TransitionCountsAreAdjacentPairs ==
    query.kind = "matrix" =>
        /\ \A source \in DOMAIN result :
              /\ source \in StatesOf(query.arg)
              /\ \A dest \in DOMAIN result[source] :
                    dest \in StatesOf(query.arg) /\ result[source][dest] > 0
        /\ \A source \in StatesOf(query.arg), dest \in StatesOf(query.arg) :
              CountOf(result, source, dest)
                 = Cardinality(PairPositions(query.arg, source, dest))
        /\ SumValues([s \in DOMAIN result |-> SumValues(result[s])])
              = SumValues([id \in {s.session_id : s \in Range(store)} |->
                              Len(SequenceOfSession(query.arg, id)) - 1])

\* C21 witness: the matrix of a store of two sessions with two actions or
\* more each, one pair of which was seen twice.
C21_Witness ==
    /\ query.kind = "matrix"
    /\ \A id \in {"s1", "s2"} : Len(SequenceOfSession(query.arg, id)) >= 2
    /\ \E source \in DOMAIN result :
          \E dest \in DOMAIN result[source] : result[source][dest] = 2

\* C22: get_trajectories partitions the stored actions by session_id: the
\* trajectories are those of the identifiers in the store, each holds exactly
\* the stored actions of its identifier, once each, in non-decreasing
\* sequence_num order, and actions of equal sequence_num are in store order.
C22_TrajectoriesPartitionTheStore ==
    query.kind = "trajectories" =>
        /\ DOMAIN result.of = {t.session_id : t \in Range(store)}
        /\ Range(result.ids) = DOMAIN result.of
        /\ Len(result.ids) = Cardinality(DOMAIN result.of)
        /\ \A id \in DOMAIN result.of :
              LET trajectory == result.of[id]
              IN /\ Range(trajectory) = {t \in Range(store) : t.session_id = id}
                 /\ Len(trajectory) = Cardinality(Range(trajectory))
                 /\ \A i \in 1..Len(trajectory), j \in 1..Len(trajectory) :
                       i < j =>
                          /\ trajectory[i].sequence_num <= trajectory[j].sequence_num
                          /\ trajectory[i].sequence_num = trajectory[j].sequence_num
                                => trajectory[i].timestamp < trajectory[j].timestamp

\* C22 witness: the trajectories of a store in which a session's actions are
\* not in sequence_num order and another identifier's actions share one.
C22_Witness ==
    /\ query.kind = "trajectories"
    /\ Cardinality(DOMAIN result.of) >= 2
    /\ \E i \in 1..Len(store), j \in 1..Len(store) :
          /\ i < j
          /\ store[i].session_id = store[j].session_id
          /\ store[i].sequence_num > store[j].sequence_num
    /\ \E id \in DOMAIN result.of :
          \E i \in 1..(Len(result.of[id]) - 1) :
             result.of[id][i].sequence_num = result.of[id][i + 1].sequence_num

\* C23: the list find_tool_sequences and find_modality_patterns return is
\* sorted by frequency, descending: of two adjacent results the earlier one's
\* frequency is at least the later one's.
C23_PatternsSortedByFrequency ==
    query.kind \in {"tool", "modality"} =>
        \A i \in 1..(Len(patterns) - 1) :
            patterns[i].frequency >= patterns[i + 1].frequency

\* C23 witness: a result in which a pattern seen twice comes first and a
\* pattern seen once comes later, although the latter was met first in the
\* store.
C23_Witness ==
    /\ query.kind \in {"tool", "modality"}
    /\ \E i \in 1..(Len(patterns) - 1) :
          patterns[i].frequency > patterns[i + 1].frequency
    /\ Len(store) >= 3
    /\ \E i \in 1..Len(patterns) :
          /\ patterns[i].frequency = 1
          /\ patterns[1].frequency = 2
          /\ patterns[i].pattern
                = Projection(query.kind, SubSeq(store, 1, Len(patterns[i].pattern)))

\* The store with every action's tool replaced by the value of its modality:
\* what the tool n-gram algorithm reads when it is run over the modality
\* sequences.
ModalitiesAsTools ==
    [k \in 1..Len(store) |->
        [store[k] EXCEPT !.tool = Modality_value(store[k].modality)]]

\* The pattern and the frequency of every result, in result order.
Frequencies(ps) ==
    [k \in 1..Len(ps) |-> [pattern |-> ps[k].pattern, frequency |-> ps[k].frequency]]

C25_ErrorOutputOfTouchToolIsPain ==
    [][\A c \in CallArgs :
          (/\ LogActionWith(c)
           /\ Len(store') = Len(store) + 1
           /\ c.tool \in {"view", "bash_tool"}
           /\ c.out \cap PainWords # {})
             => store'[Len(store')].modality = "PAIN"]_vars

\* The lines of the current trace file, none when the file does not exist.
CurrentLines == IF traceFile = <<>> THEN <<>> ELSE traceFile[1]

\* C26: while a session started with `start` is active and the k `log`
\* commands since were run one after another, the current trace file holds k
\* records, all with the session's id, with the sequence values 0..k-1 in
\* file order, and the counter in session_meta.json is k; `end` then archives
\* k as the number of actions, which is what it reports.
C26_SequentialLogsCountFromZero ==
    /\ []((program = "cli" /\ sessionFile # <<>>) =>
            /\ \A i \in 1..Len(CurrentLines) :
                  /\ CurrentLines[i].session_id = sessionFile[1].session_id
                  /\ CurrentLines[i].sequence = i - 1
            /\ sessionFile[1].sequence = Len(CurrentLines))
    /\ [][\A ok \in BOOLEAN :
            (cmd_end(ok) /\ sessionFile # <<>>) =>
               LET id == sessionFile[1].session_id
               IN /\ archives'[[kind |-> "meta", id |-> id]].sequence
                       = Len(CurrentLines)
                  /\ traceFile # <<>> =>
                       archives'[[kind |-> "traces", id |-> id]] = CurrentLines]_vars

\* C26 witness: a session was started after an anonymous record had been
\* logged, two records were logged in it, and it was ended: its archive
\* holds the sequence values 0 and 1 and its metadata count two actions.
C26_Witness ==
    /\ program = "cli"
    /\ sessionFile = <<>>
    /\ \E id \in Range(StampPool) :
          /\ [kind |-> "prior", id |-> id] \in DOMAIN archives
          /\ [kind |-> "meta", id |-> id] \in DOMAIN archives
          /\ [kind |-> "traces", id |-> id] \in DOMAIN archives
          /\ archives[[kind |-> "meta", id |-> id]].sequence = 2
          /\ LET lines == archives[[kind |-> "traces", id |-> id]]
             IN /\ Len(lines) = 2
                /\ lines[1].sequence = 0 /\ lines[2].sequence = 1
                /\ lines[1].session_id = id /\ lines[2].session_id = id

\* C27: no two records of the same started session in the current trace
\* file share a sequence value, also when a `log` command is interrupted
\* after its append and when two `log` commands interleave their steps.
C27_NoSharedSequenceValue ==
    \A i \in 1..Len(CurrentLines), j \in 1..Len(CurrentLines) :
        (/\ i # j
         /\ CurrentLines[i].session_id # "anonymous"
         /\ CurrentLines[i].session_id = CurrentLines[j].session_id)
           => CurrentLines[i].sequence # CurrentLines[j].sequence

\* The files of the traces directory that hold trace records, besides the
\* current one.
TraceArchives(files) == {n \in DOMAIN files : n.kind \in {"prior", "traces"}}

\* How many times a record is present in the files of the traces directory.
Copies(r, current_file, files) ==
    LET lines == IF current_file = <<>> THEN <<>> ELSE current_file[1]
    IN Cardinality({i \in 1..Len(lines) : lines[i] = r})
       + Cardinality({q \in UNION {{n} \X (1..Len(files[n])) : n \in TraceArchives(files)} :
                         files[q[1]][q[2]] = r})

\* Every record present in some file of the traces directory.
WrittenRecords ==
    Range(CurrentLines) \cup UNION {Range(archives[n]) : n \in TraceArchives(archives)}

\* C28: no start / log / end command removes or overwrites a trace record
\* that was already written: every record is present after the command as
\* many times as before it, in the current file or in an archive.
C28_WrittenRecordsArePreserved ==
    [][program = "cli" =>
         \A r \in WrittenRecords :
            Copies(r, traceFile', archives') >= Copies(r, traceFile, archives)]_vars

\* C29: an action logged while no session is open, through log_action
\* outside every session scope or through `log` with no session_meta.json,
\* is recorded under session_id "anonymous" with sequence number 0 and no
\* session goal, however many anonymous actions were logged before it.
C29_AnonymousActionsAreNumberedZero ==
    [][/\ \A c \in LogCalls :
            (LogAction(c) /\ current = 0) =>
               /\ Len(store') = Len(store) + 1
               /\ store'[Len(store')].session_id = "anonymous"
               /\ store'[Len(store')].sequence_num = 0
               /\ store'[Len(store')].goal = None
       /\ \A t \in CliTools, e \in CliErrors :
            (cmd_log(t, e) /\ sessionFile = <<>>) =>
               LET lines == traceFile'[1]
               IN /\ Len(lines) = Len(CurrentLines) + 1
                  /\ lines[Len(lines)].session_id = "anonymous"
                  /\ lines[Len(lines)].sequence = 0
                  /\ "goal" \notin DOMAIN lines[Len(lines)]]_vars

\* C29 witness: after a session was opened and left, two actions were logged
\* outside every session; both are in the store as anonymous actions.
C29_Witness ==
    /\ program = "logger"
    /\ sessions # <<>>
    /\ current = 0
    /\ Len(store) = 2
    /\ \A k \in 1..2 : store[k].session_id = "anonymous" /\ store[k].sequence_num = 0

\* The records of TRACE_FILE the process wrote.
OwnRecords == SelectSeq(liveTrace, LAMBDA t : t.session_id = SESSION_ID)

\* C30: the records one observer process wrote carry the sequence values
\* 0, 1, 2, ... in write order, and the action_count get_session_stats
\* reports is the number of records of TRACE_FILE with the process's
\* SESSION_ID, also after calls whose append failed.
C30_ObserverSequenceContiguous ==
    /\ [](\A k \in 1..Len(OwnRecords) : OwnRecords[k].sequence = k - 1)
    /\ [][ObserverGetSessionStats =>
            stats'.action_count = Len(OwnRecords)]_vars

====
